---- MODULE Spec2Model ----
(***************************************************************************)
(* Voice recorder (src/script.js): the recording session controller and    *)
(* the list of finished recordings, together with the platform objects     *)
(* the script drives: MediaRecorder instances, media streams, interval     *)
(* timers, pending getUserMedia promises and the millisecond clock.        *)
(*                                                                         *)
(* One handler body runs at a time (single-threaded event loop), so each   *)
(* handler or callback is one atomic action.                               *)
(***************************************************************************)
EXTENDS Integers, Sequences, FiniteSets, TLC

\* ------------------------------------------------------------------ bounds
MaxSessions   == 2   \* successful capture acquisitions
MaxPending    == 2   \* getUserMedia promises simultaneously pending
MaxFrags      == 1   \* fragments delivered over the whole run
MaxClockSteps == 2   \* clock advances of StepMs each
MaxDownloads == 2    \* clicks on download buttons

\* ------------------------------------------------------- program constants
TickMs == 1000                 \* setInterval period
StepMs == TickMs \div 2        \* granularity of the modelled clock

RecIds   == 1..MaxSessions     \* recorder k records stream k
TimerIds == 1..MaxSessions

\* Sizes of delivered fragments, by delivery number.
FragSize(f) == CASE f % 3 = 1 -> 100 [] f % 3 = 2 -> 200 [] OTHER -> 50

RECURSIVE PayloadSize(_)
PayloadSize(s) == IF s = <<>> THEN 0 ELSE FragSize(Head(s)) + PayloadSize(Tail(s))

\* ---------------------------------------------------------------- strings
\* A string is a sequence of one-character strings.

\* String(d) of one decimal digit.
DigitChar(d) == <<"0", "1", "2", "3", "4", "5", "6", "7", "8", "9">>[d + 1]

\* String(n) of a natural number.
RECURSIVE ToStr(_)
ToStr(n) == IF n < 10 THEN <<DigitChar(n)>>
            ELSE Append(ToStr(n \div 10), DigitChar(n % 10))

\* s.padStart(n, c)
RECURSIVE PadStart(_, _, _)
PadStart(s, n, c) == IF Len(s) >= n THEN s ELSE PadStart(<<c>> \o s, n, c)

\* Hours taken modulo 24.
HoursOfDay(totalSeconds) == (totalSeconds \div 3600) % 24

\* Math.floor(totalSeconds / 3600)
Hours(totalSeconds) == totalSeconds \div 3600

\* The text the interval callback writes to the timer element.
TimerText(ms) ==
  LET totalSeconds == ms \div 1000
      hours   == PadStart(ToStr(Hours(totalSeconds)), 2, "0")
      minutes == PadStart(ToStr((totalSeconds % 3600) \div 60), 2, "0")
      seconds == PadStart(ToStr(totalSeconds % 60), 2, "0")
  IN  hours \o <<":">> \o minutes \o <<":">> \o seconds

\* The text resetTimer() writes to the timer element.
ZeroText == <<"0", "0", ":", "0", "0", ":", "0", "0">>

\* defaultName of addAudioToDisplay; the locale date and time are left out.
DefaultName(durationMs) ==
  LET totalSeconds == durationMs \div 1000
      minutes == PadStart(ToStr(totalSeconds \div 60), 2, "0")
      seconds == PadStart(ToStr(totalSeconds % 60), 2, "0")
  IN  <<"R", "e", "c", "o", "r", "d", "i", "n", "g", " ", "(">> \o minutes \o <<":">> \o seconds \o <<")">>

VARIABLES
  \* --- globals of script.js
  mediaRecorder,   \* 0 (undefined) or the id of the recorder last created
  audioChunks,     \* sequence of fragments
  stream,          \* 0 (undefined) or the id of the stream last acquired
  isRecording,
  isPaused,
  timerInterval,   \* 0 (undefined) or the id returned by the last setInterval
  startTime,
  timeElapsed,
  statusMessage,   \* statusMessage.textContent
  recordDisabled,  \* recordButton.disabled
  timerText,       \* timerElement.textContent
  audioList,       \* children of #audio-list, first child first
  \* --- platform
  recState,        \* MediaRecorder.state per recorder; "none" = not created
  stopPending,     \* recorders whose stop task (dataavailable, stop) is queued
  trackStops,      \* per stream: number of times its tracks were stopped
  pendingGUM,      \* getUserMedia promises not yet settled
  timers,          \* per timer id: time of its next callback, 0 = not live
  now,             \* Date.now()
  revokeCalls,     \* per blob URL: URL.revokeObjectURL calls on it
  lastDownload,    \* the last download handed to the platform: the entry's
                   \* url and name and the file name (a.download)
  downloadCount,   \* downloads so far
  \* --- history
  delivered,       \* per recorder: fragments its ondataavailable received
  elapsedAtStop,   \* per recorder awaiting its stop task: timeElapsed when
                   \* stop() stopped it; -1 otherwise
  recordedMs,      \* ms the recorder in mediaRecorder has spent "recording"
                   \* since it was started; 0 once stop() has run
  finalizedEmpty,  \* recorders whose stop task assembled an empty audioChunks
  releasedBy,      \* per stream: recorders whose onstop stopped its tracks
  finalized,       \* recorders whose onstop has run
  urlCount,        \* URL.createObjectURL calls so far
  fragCount,       \* fragments delivered so far
  ignored          \* the request the last handler run ignored: "none",
                   \* "start" (record click) or "toggle" (pause click)

ctrlVars == <<mediaRecorder, audioChunks, stream, isRecording, isPaused,
              timerInterval, startTime, timeElapsed, statusMessage,
              recordDisabled, timerText, audioList>>
platVars == <<recState, stopPending, trackStops, pendingGUM, timers, now>>
histVars == <<delivered, elapsedAtStop, recordedMs, finalizedEmpty, releasedBy,
              finalized, urlCount, fragCount>>
regVars == <<revokeCalls, lastDownload, downloadCount>>
vars == <<ctrlVars, platVars, histVars, regVars, ignored>>

\* The lifecycle state of the controller, read off the script's flags.
State ==
  IF isRecording THEN (IF isPaused THEN "Paused" ELSE "Recording")
  ELSE IF mediaRecorder # 0 /\ mediaRecorder \in stopPending THEN "Stopped"
  ELSE "Idle"

\* No download has been handed to the platform yet.
NoDownload == [name |-> <<>>, filename |-> <<>>]

Init ==
  /\ mediaRecorder = 0
  /\ audioChunks = <<>>
  /\ stream = 0
  /\ isRecording = FALSE
  /\ isPaused = FALSE
  /\ timerInterval = 0
  /\ startTime = 0
  /\ timeElapsed = 0
  /\ statusMessage = "initial"
  /\ recordDisabled = FALSE
  /\ timerText = ZeroText
  /\ audioList = <<>>
  /\ recState = [r \in RecIds |-> "none"]
  /\ stopPending = {}
  /\ trackStops = [s \in RecIds |-> 0]
  /\ pendingGUM = 0
  /\ timers = [t \in TimerIds |-> 0]
  /\ now = 0
  /\ revokeCalls = [u \in RecIds |-> 0]
  /\ lastDownload = NoDownload
  /\ downloadCount = 0
  /\ delivered = [r \in RecIds |-> <<>>]
  /\ elapsedAtStop = [r \in RecIds |-> -1]
  /\ finalizedEmpty = {}
  /\ recordedMs = 0
  /\ releasedBy = [s \in RecIds |-> <<>>]
  /\ finalized = {}
  /\ urlCount = 0
  /\ fragCount = 0
  /\ ignored = "none"

\* ------------------------------------------------------------------ timer

\* clearInterval(id): cancels that timer; an undefined or dead id is ignored.
ClearInterval(ts, id) == IF id = 0 THEN ts ELSE [ts EXCEPT ![id] = 0]

\* startTimer(): startTime = Date.now() - timeElapsed; a new interval timer.
startTimer ==
  LET t == CHOOSE x \in TimerIds : timers[x] = 0 IN
  /\ startTime' = now - timeElapsed
  /\ timerInterval' = t
  /\ timers' = [timers EXCEPT ![t] = now + TickMs]

\* The interval callback of timer t, run when it is due.
TimerTick(t) ==
  /\ UNCHANGED regVars
  /\ timers[t] # 0
  /\ timers[t] <= now
  /\ timeElapsed' = now - startTime
  /\ timerText' = TimerText(now - startTime)
  /\ timers' = [timers EXCEPT ![t] = @ + TickMs]
  /\ ignored' = "none"
  /\ UNCHANGED <<mediaRecorder, audioChunks, stream, isRecording, isPaused,
                 timerInterval, startTime, statusMessage, recordDisabled,
                 audioList>>
  /\ UNCHANGED <<recState, stopPending, trackStops, pendingGUM, now>>
  /\ UNCHANGED histVars

\* The clock moves on by StepMs; a due interval callback runs first.
Advance ==
  /\ UNCHANGED regVars
  /\ now < MaxClockSteps * StepMs
  /\ \A t \in TimerIds : timers[t] = 0 \/ timers[t] > now
  /\ now' = now + StepMs
  /\ recordedMs' = IF mediaRecorder # 0 /\ recState[mediaRecorder] = "recording"
                     THEN recordedMs + StepMs ELSE recordedMs
  /\ ignored' = "none"
  /\ UNCHANGED ctrlVars
  /\ UNCHANGED <<recState, stopPending, trackStops, pendingGUM, timers>>
  /\ UNCHANGED <<delivered, elapsedAtStop, finalizedEmpty, releasedBy,
                 finalized, urlCount, fragCount>>

\* ------------------------------------------------------------------ start

\* StartAccepted without the listener's own isRecording test.
StartAcceptedNoFlag == ~recordDisabled

\* The record button's click reaches startRecording(): a disabled button
\* dispatches no click, and the listener calls only when not recording.
StartAccepted == ~recordDisabled /\ ~isRecording

\* Click on the record button: startRecording() up to its await.
RecordClick ==
  /\ UNCHANGED <<regVars, timerText>>
  /\ StartAccepted => pendingGUM < MaxPending
  /\ IF StartAccepted
       THEN /\ statusMessage' = "Requesting microphone access..."
            /\ pendingGUM' = pendingGUM + 1
            /\ ignored' = "none"
       ELSE /\ UNCHANGED <<statusMessage, pendingGUM>>
            /\ ignored' = "start"
  /\ UNCHANGED <<mediaRecorder, audioChunks, stream, isRecording, isPaused,
                 timerInterval, startTime, timeElapsed, recordDisabled,
                 audioList>>
  /\ UNCHANGED <<recState, stopPending, trackStops, timers, now>>
  /\ UNCHANGED histVars

\* getUserMedia resolves: the rest of startRecording()'s try block.
AcquireOk ==
  /\ UNCHANGED <<regVars, timerText>>
  /\ pendingGUM > 0
  /\ \E r \in RecIds :
       /\ recState[r] = "none"
       /\ \A q \in RecIds : q < r => recState[q] # "none"
       /\ stream' = r
       /\ mediaRecorder' = r
       /\ audioChunks' = <<>>
       /\ recState' = [recState EXCEPT ![r] = "recording"]
  /\ pendingGUM' = pendingGUM - 1
  /\ isRecording' = TRUE
  /\ recordDisabled' = TRUE
  /\ statusMessage' = "Recording..."
  /\ isPaused' = FALSE
  /\ startTimer
  /\ ignored' = "none"
  /\ recordedMs' = 0
  /\ UNCHANGED <<timeElapsed, audioList>>
  /\ UNCHANGED <<stopPending, trackStops, now>>
  /\ UNCHANGED <<delivered, elapsedAtStop, finalizedEmpty, releasedBy,
                 finalized, urlCount, fragCount>>

\* getUserMedia rejects: the catch block.
AcquireFail ==
  /\ UNCHANGED <<regVars, timerText>>
  /\ pendingGUM > 0
  /\ pendingGUM' = pendingGUM - 1
  /\ statusMessage' = "Error: Microphone access denied or not available."
  /\ recordDisabled' = FALSE
  /\ ignored' = "none"
  /\ UNCHANGED <<mediaRecorder, audioChunks, stream, isRecording, isPaused,
                 timerInterval, startTime, timeElapsed, audioList>>
  /\ UNCHANGED <<recState, stopPending, trackStops, timers, now>>
  /\ UNCHANGED histVars

\* ----------------------------------------------------------- pause / resume

\* RESUME branch of togglePauseResume(). MediaRecorder.resume() throws
\* InvalidStateError on an inactive recorder, which ends the handler before
\* any assignment.
ResumeBranch ==
  IF recState[mediaRecorder] = "inactive"
    THEN UNCHANGED <<recState, isPaused, statusMessage, startTime,
                     timerInterval, timers>>
    ELSE /\ recState' = [recState EXCEPT ![mediaRecorder] = "recording"]
         /\ isPaused' = FALSE
         /\ statusMessage' = "Recording..."
         /\ startTimer

\* PauseBranch with isPaused assigned before the call of pause(), so that
\* the assignment survives the exception.
PauseBranchFlagFirst ==
  IF recState[mediaRecorder] = "inactive"
    THEN /\ isPaused' = TRUE
         /\ UNCHANGED <<recState, statusMessage, startTime, timerInterval,
                         timers>>
    ELSE /\ recState' = [recState EXCEPT ![mediaRecorder] = "paused"]
         /\ isPaused' = TRUE
         /\ statusMessage' = "Recording Paused. Tap play to resume."
         /\ timers' = ClearInterval(timers, timerInterval)
         /\ UNCHANGED <<startTime, timerInterval>>

\* PAUSE branch of togglePauseResume(). MediaRecorder.pause() throws
\* InvalidStateError on an inactive recorder, which ends the handler before
\* any assignment.
PauseBranch ==
  IF recState[mediaRecorder] = "inactive"
    THEN UNCHANGED <<recState, isPaused, statusMessage, startTime,
                     timerInterval, timers>>
    ELSE /\ recState' = [recState EXCEPT ![mediaRecorder] = "paused"]
         /\ isPaused' = TRUE
         /\ statusMessage' = "Recording Paused. Tap play to resume."
         /\ timers' = ClearInterval(timers, timerInterval)
         /\ UNCHANGED <<startTime, timerInterval>>

\* Click on the pause button.
togglePauseResume ==
  /\ UNCHANGED <<regVars, timerText>>
  /\ IF mediaRecorder = 0
       THEN UNCHANGED <<recState, isPaused, statusMessage, startTime,
                        timerInterval, timers>>
       ELSE IF isPaused THEN ResumeBranch ELSE PauseBranch
  /\ ignored' = IF mediaRecorder = 0 \/ recState[mediaRecorder] = "inactive"
                THEN "toggle" ELSE "none"
  /\ UNCHANGED <<mediaRecorder, audioChunks, stream, isRecording,
                 timeElapsed, recordDisabled, audioList>>
  /\ UNCHANGED <<stopPending, trackStops, pendingGUM, now>>
  /\ UNCHANGED histVars

\* ------------------------------------------------------------------- stop

\* StopRequested testing for the recording state only, so that a paused
\* recorder is not stopped.
StopRequestedIfRecording ==
  mediaRecorder # 0 /\ recState[mediaRecorder] = "recording"

\* The guard of stopRecording(): there is a recorder and it is not inactive.
StopRequested == mediaRecorder # 0 /\ recState[mediaRecorder] # "inactive"

\* Click on the stop button: stopRecording(), resetTimer() included.
\* MediaRecorder.stop() sets the recorder inactive at once and queues the
\* task that fires dataavailable and then stop.
stopRecording ==
  /\ UNCHANGED regVars
  /\ IF StopRequested
       THEN /\ recState' = [recState EXCEPT ![mediaRecorder] = "inactive"]
            /\ stopPending' = stopPending \cup {mediaRecorder}
            /\ elapsedAtStop' = [elapsedAtStop EXCEPT ![mediaRecorder] = timeElapsed]
       ELSE UNCHANGED <<recState, stopPending, elapsedAtStop>>
  /\ statusMessage' = "Processing audio..."
  /\ recordDisabled' = FALSE
  /\ timers' = ClearInterval(timers, timerInterval)
  /\ timerText' = ZeroText
  /\ timeElapsed' = 0
  /\ isRecording' = FALSE
  /\ isPaused' = FALSE
  /\ ignored' = "none"
  /\ UNCHANGED <<mediaRecorder, audioChunks, stream, timerInterval, startTime,
                 audioList>>
  /\ UNCHANGED <<trackStops, pendingGUM, now>>
  /\ recordedMs' = 0
  /\ UNCHANGED <<delivered, finalizedEmpty, releasedBy, finalized, urlCount,
                 fragCount>>

\* ------------------------------------------------------- platform callbacks

\* ondataavailable of recorder r: the fragment goes to the global audioChunks.
DataAvailable(r) ==
  /\ UNCHANGED <<regVars, timerText>>
  /\ recState[r] = "recording"
  /\ fragCount < MaxFrags
  /\ fragCount' = fragCount + 1
  /\ audioChunks' = Append(audioChunks, fragCount + 1)
  /\ delivered' = [delivered EXCEPT ![r] = Append(@, fragCount + 1)]
  /\ ignored' = "none"
  /\ UNCHANGED <<mediaRecorder, stream, isRecording, isPaused, timerInterval,
                 startTime, timeElapsed, statusMessage, recordDisabled,
                 audioList>>
  /\ UNCHANGED platVars
  /\ UNCHANGED <<elapsedAtStop, recordedMs, finalizedEmpty, releasedBy, finalized,
                 urlCount>>

\* MM:SS of the default name, truncated from durationMs.
DurationLabel(durationMs) ==
  LET totalSeconds == durationMs \div 1000
  IN  <<totalSeconds \div 60, totalSeconds % 60>>

\* addAudioToDisplay with the item appended at the end of the list.
addAudioToDisplayAtEnd(list, item) == Append(list, item)

\* audioList.prepend(itemDiv)
addAudioToDisplay(list, item) == <<item>> \o list

\* The stop task of recorder r: the data not yet delivered goes to
\* ondataavailable (flush; without it the last blob is empty and contributes
\* nothing), then onstop runs finishRecording().
OnStop(r, flush) ==
  /\ UNCHANGED <<regVars, timerText>>
  /\ r \in stopPending
  /\ flush => fragCount < MaxFrags
  /\ LET chunks == IF flush THEN Append(audioChunks, fragCount + 1)
                   ELSE audioChunks
         item == [url |-> urlCount + 1,
                  payload |-> chunks,
                  durationMs |-> timeElapsed,
                  label |-> DurationLabel(timeElapsed),
                  name |-> DefaultName(timeElapsed),
                  session |-> r]
     IN /\ audioChunks' = chunks
        /\ audioList' = addAudioToDisplay(audioList, item)
        /\ finalizedEmpty' = IF chunks = <<>> THEN finalizedEmpty \cup {r}
                              ELSE finalizedEmpty
  /\ delivered' = IF flush THEN [delivered EXCEPT ![r] = Append(@, fragCount + 1)]
                  ELSE delivered
  /\ fragCount' = IF flush THEN fragCount + 1 ELSE fragCount
  /\ urlCount' = urlCount + 1
  /\ trackStops' = [trackStops EXCEPT ![stream] = @ + 1]
  /\ releasedBy' = [releasedBy EXCEPT ![stream] = Append(@, r)]
  /\ statusMessage' = "Ready to record again."
  /\ stopPending' = stopPending \ {r}
  /\ finalized' = finalized \cup {r}
  /\ ignored' = "none"
  /\ UNCHANGED <<mediaRecorder, stream, isRecording, isPaused, timerInterval,
                 startTime, timeElapsed, recordDisabled>>
  /\ UNCHANGED <<recState, pendingGUM, timers, now>>
  /\ elapsedAtStop' = [elapsedAtStop EXCEPT ![r] = -1]
  /\ UNCHANGED recordedMs

\* ---------------------------------------------------------- specification

Next ==
  \/ RecordClick
  \/ AcquireOk
  \/ AcquireFail
  \/ togglePauseResume
  \/ stopRecording
  \/ \E r \in RecIds : DataAvailable(r)
  \/ \E r \in RecIds, flush \in BOOLEAN : OnStop(r, flush)
  \/ \E t \in TimerIds : TimerTick(t)
  \/ Advance

Spec == Init /\ [][Next]_vars

\* ------------------------------------------------------- the recording list

\* White space String.prototype.trim removes (of the characters used here).
Whitespace == {" ", "\t", "\n"}

RECURSIVE TrimStart(_)
TrimStart(s) ==
  IF s # <<>> /\ Head(s) \in Whitespace THEN TrimStart(Tail(s)) ELSE s

RECURSIVE TrimEnd(_)
TrimEnd(s) ==
  IF s # <<>> /\ s[Len(s)] \in Whitespace
  THEN TrimEnd(SubSeq(s, 1, Len(s) - 1)) ELSE s

\* newName.trim()
Trim(s) == TrimEnd(TrimStart(s))

\* What prompt() may return: null when cancelled, else the text entered.
RenameInputs ==
  { [cancelled |-> TRUE, text |-> <<>>],
    [cancelled |-> FALSE, text |-> <<>>],
    [cancelled |-> FALSE, text |-> <<" ", " ", " ">>],
    [cancelled |-> FALSE, text |-> <<" ", "T", "a", "k", "e", " ", "2", " ">>],
    [cancelled |-> FALSE, text |-> <<"M", "y", " ", "R", "e", "c", "o", "r", "d", "i", "n", "g", "!", " ", "#", "1">>] }

\* The test of renameRecording without its trim() (not the script's test).
NewNameAcceptedNoTrim(input) == ~input.cancelled /\ input.text # <<>>

\* if (newName && newName.trim() !== "")
NewNameAccepted(input) ==
  ~input.cancelled /\ input.text # <<>> /\ Trim(input.text) # <<>>

\* A click on the rename button of the entry at position i; the prompt
\* returns input.
renameRecording(i, input) ==
  /\ i \in DOMAIN audioList
  /\ audioList' = IF NewNameAccepted(input)
                  THEN [audioList EXCEPT ![i].name = Trim(input.text)]
                  ELSE audioList
  /\ ignored' = "none"
  /\ UNCHANGED <<mediaRecorder, audioChunks, stream, isRecording, isPaused,
                 timerInterval, startTime, timeElapsed, statusMessage,
                 recordDisabled, timerText>>
  /\ UNCHANGED <<platVars, histVars, regVars>>

\* itemElement.remove()
RemoveAt(list, i) ==
  [k \in 1..(Len(list) - 1) |-> IF k < i THEN list[k] ELSE list[k + 1]]

\* A click on the delete button of the entry at position i; confirm()
\* returns confirmed.
deleteRecording(i, confirmed) ==
  /\ i \in DOMAIN audioList
  /\ IF confirmed
     THEN /\ revokeCalls' = [revokeCalls EXCEPT ![audioList[i].url] = @ + 1]
          /\ audioList' = RemoveAt(audioList, i)
     ELSE UNCHANGED <<revokeCalls, audioList>>
  /\ ignored' = "none"
  /\ UNCHANGED <<mediaRecorder, audioChunks, stream, isRecording, isPaused,
                 timerInterval, startTime, timeElapsed, statusMessage,
                 recordDisabled, timerText>>
  /\ UNCHANGED <<platVars, histVars, lastDownload, downloadCount>>

LowerCase == 
  <<"a", "b", "c", "d", "e", "f", "g", "h", "i", "j", "k", "l", "m">>
    \o <<"n", "o", "p", "q", "r", "s", "t", "u", "v", "w", "x", "y", "z">>
UpperCase == 
  <<"A", "B", "C", "D", "E", "F", "G", "H", "I", "J", "K", "L", "M">>
    \o <<"N", "O", "P", "Q", "R", "S", "T", "U", "V", "W", "X", "Y", "Z">>
Digits == <<"0", "1", "2", "3", "4", "5", "6", "7", "8", "9">>

\* The class [a-z0-9] of a regular expression without the i flag (not the
\* script's expression).
KeptByRegexCaseSensitive(c) ==
  (\E k \in DOMAIN LowerCase : LowerCase[k] = c)
    \/ (\E k \in DOMAIN Digits : Digits[k] = c)

\* The case folding the i flag applies to a character before comparing it.
CaseFold(c) ==
  IF \E k \in DOMAIN UpperCase : UpperCase[k] = c
  THEN LowerCase[CHOOSE k \in DOMAIN UpperCase : UpperCase[k] = c]
  ELSE c

\* c is not matched by /[^a-z0-9]/gi
KeptByRegex(c) ==
  (\E k \in DOMAIN LowerCase : LowerCase[k] = CaseFold(c))
    \/ (\E k \in DOMAIN Digits : Digits[k] = c)

\* filename.replace(/[^a-z0-9]/gi, '_')
ReplaceNonAlnum(filename) ==
  [k \in DOMAIN filename |->
     IF KeptByRegex(filename[k]) THEN filename[k] ELSE "_"]

\* The value given to a.download
DownloadName(filename) == ReplaceNonAlnum(filename) \o <<".", "w", "e", "b", "m">>

\* A click on the download button of the entry at position i.
downloadRecording(i) ==
  /\ i \in DOMAIN audioList
  /\ downloadCount < MaxDownloads
  /\ downloadCount' = downloadCount + 1
  /\ lastDownload' = [name |-> audioList[i].name,
                      filename |-> DownloadName(audioList[i].name)]
  /\ revokeCalls' = [revokeCalls EXCEPT ![audioList[i].url] = @ + 1]
  /\ ignored' = "none"
  /\ UNCHANGED <<ctrlVars, platVars, histVars>>

\* The list as a user fills and edits it who records one session at a time:
\* record is clicked in Idle, stop during a session, and the recorder has
\* delivered its data before the stop task.
RegNext ==
  \/ (State = "Idle" /\ pendingGUM = 0 /\ RecordClick)
  \/ AcquireOk
  \/ (isRecording /\ stopRecording)
  \/ \E r \in RecIds : OnStop(r, FALSE)
  \/ \E i \in 1..MaxSessions, input \in RenameInputs : renameRecording(i, input)
  \/ \E i \in 1..MaxSessions, confirmed \in BOOLEAN :
       deleteRecording(i, confirmed)
  \/ \E i \in 1..MaxSessions : downloadRecording(i)

RegSpec == Init /\ [][RegNext]_vars

\* ------------------------------------------------- the timer display alone

\* Values of Date.now() - startTime at which the interval callback is run.
ElapsedInputs ==
  {0, 999, 1000, 59999, 60000, 3599000, 3600000, 3725000, 3725999,
   86399000, 86400000, 25 * 3600000, 99 * 3600000 + 3599000, 100 * 3600000,
   123 * 3600000 + 45 * 60000 + 6000}
  \cup {k * 61000 + 500 : k \in 1..40}

\* A first session that has been recording since time 0 without a pause,
\* at the moment an interval callback is due.
FmtInit ==
  \E e \in ElapsedInputs :
    LET previous == IF e >= TickMs THEN e - TickMs ELSE 0 IN
    /\ mediaRecorder = 1
    /\ audioChunks = <<>>
    /\ stream = 1
    /\ isRecording = TRUE
    /\ isPaused = FALSE
    /\ timerInterval = 1
    /\ startTime = 0
    /\ timeElapsed = previous
    /\ statusMessage = "Recording..."
    /\ recordDisabled = TRUE
    /\ timerText = IF e >= TickMs THEN TimerText(previous) ELSE ZeroText
    /\ audioList = <<>>
    /\ recState = [r \in RecIds |-> IF r = 1 THEN "recording" ELSE "none"]
    /\ stopPending = {}
    /\ trackStops = [s \in RecIds |-> 0]
    /\ pendingGUM = 0
    /\ timers = [t \in TimerIds |-> IF t = 1 THEN e ELSE 0]
    /\ now = e
    /\ revokeCalls = [u \in RecIds |-> 0]
    /\ lastDownload = NoDownload
    /\ downloadCount = 0
    /\ delivered = [r \in RecIds |-> <<>>]
    /\ elapsedAtStop = [r \in RecIds |-> -1]
    /\ finalizedEmpty = {}
    /\ recordedMs = e
    /\ releasedBy = [s \in RecIds |-> <<>>]
    /\ finalized = {}
    /\ urlCount = 0
    /\ fragCount = 0
    /\ ignored = "none"

FmtNext ==
  \/ \E t \in TimerIds : TimerTick(t)
  \/ stopRecording

FmtSpec == FmtInit /\ [][FmtNext]_vars

\* ----------------------------------------------------------------- claims

\* The stop task of recorder r runs in this step.
Finalizes(r) == r \in stopPending /\ r \notin stopPending'

\* C1: the payload of every recording is exactly the sequence of fragments
\* delivered to the data callback of the session that produced it, each once
\* and in delivery order, so its size is the sum of their sizes.
C1_PayloadIsDelivered ==
  \A i \in DOMAIN audioList :
    /\ audioList[i].payload = delivered[audioList[i].session]
    /\ PayloadSize(audioList[i].payload)
         = PayloadSize(delivered[audioList[i].session])

C3_DurationIsElapsedAtStop ==
  [][\A r \in RecIds :
       Finalizes(r) => Head(audioList').durationMs = elapsedAtStop[r]]_vars

\* Every interval callback that is due has run.
TimerUpToDate == \A t \in TimerIds : timers[t] = 0 \/ timers[t] > now

\* C4: timeElapsed at stop() equals the time the session spent Recording,
\* pause intervals excluded. Stated for a stop() that finds the timer up to
\* date and in whole tick periods, the resolution of the timer; the exact
\* equality of the claim implies it.
C4_ElapsedIsRecordedTime ==
  [][(stopRecording /\ StopRequested /\ TimerUpToDate)
       => timeElapsed \div TickMs = recordedMs \div TickMs]_vars

\* C5: stop() in Idle or Stopped is a no-op: no capture stop is requested, no
\* entry is added, and lifecycle state, timeElapsed and status indicator stay
\* as they were.
C5_StopIdempotent ==
  [][(stopRecording /\ State \in {"Idle", "Stopped"})
       => /\ UNCHANGED <<recState, stopPending, audioList>>
          /\ State' = State
          /\ timeElapsed' = timeElapsed
          /\ statusMessage' = statusMessage]_vars

C7_StartIgnoredInSession ==
  [][(RecordClick /\ State \in {"Recording", "Paused"})
       => UNCHANGED <<ctrlVars, platVars, histVars>>]_vars

\* C7 witness: a record click was ignored in a session with fragments
\* collected and time on the timer.
C7_Witness ==
  /\ ignored = "start"
  /\ State \in {"Recording", "Paused"}
  /\ audioChunks # <<>>
  /\ timeElapsed > 0

\* C8: the controller references a recorder and a stream exactly when the
\* lifecycle state is Recording or Paused.
C8_HandleIffInSession ==
  (mediaRecorder # 0 /\ stream # 0) <=> State \in {"Recording", "Paused"}

\* C9: the tracks of every acquired stream are stopped at most once, only by
\* the stop task of the recorder that records it, and the stream of every
\* finalized session has been released.
C9_StreamReleasedOnceByOwner ==
  \A s \in RecIds :
    /\ trackStops[s] <= 1
    /\ \A i \in DOMAIN releasedBy[s] : releasedBy[s][i] = s
    /\ s \in finalized => trackStops[s] = 1

\* C10: between stop() and the stop task of a session nothing clears,
\* replaces or adds to the chunks that task will assemble.
C10_ChunksKeptUntilFinalize ==
  [][\A r \in stopPending : r \in stopPending' => audioChunks' = audioChunks]_vars

\* C11: a failed acquisition leaves the controller in Idle with no recorder
\* or stream taken, no timer started, chunks, timeElapsed and the list
\* unchanged, the failure shown in the status indicator, no new acquisition
\* begun, and the record button accepting the next start.
C11_FailedStartLeavesIdle ==
  [][AcquireFail
       => /\ State' = "Idle"
          /\ UNCHANGED <<mediaRecorder, stream, recState, timers, audioChunks,
                         timeElapsed, audioList>>
          /\ statusMessage' = "Error: Microphone access denied or not available."
          /\ pendingGUM' = pendingGUM - 1
          /\ StartAccepted']_vars

\* C17: between stop() and the stop task of the stopped session a record
\* click is not accepted: it begins no acquisition.
C17_NoStartWhileStopped ==
  [][(RecordClick /\ State = "Stopped")
       => UNCHANGED <<pendingGUM, statusMessage>>]_vars

\* Recorders that are recording or paused.
ActiveRecorders == {r \in RecIds : recState[r] \in {"recording", "paused"}}

\* C18: at most one acquisition is pending at a time, and at most one
\* recorder is active, however the pending acquisitions resolve.
C18_OneAcquisitionAtATime ==
  /\ pendingGUM <= 1
  /\ Cardinality(ActiveRecorders) <= 1

\* Interval timers that are live.
LiveTimers == {t \in TimerIds : timers[t] # 0}

\* C19: at most one interval timer is live, and only while the state is
\* Recording, so that no tick changes timeElapsed in Idle, Paused or Stopped.
C19_OneTimerOnlyWhileRecording ==
  /\ Cardinality(LiveTimers) <= 1
  /\ LiveTimers # {} => State = "Recording"

IsTrimOf(t, s) ==
  \E a, b \in 0..Len(s) :
    /\ a + b <= Len(s)
    /\ t = SubSeq(s, a + 1, Len(s) - b)
    /\ \A k \in 1..a : s[k] \in {" ", "\t", "\n"}
    /\ \A k \in (Len(s) - b + 1)..Len(s) : s[k] \in {" ", "\t", "\n"}
    /\ t # <<>> => t[1] \notin {" ", "\t", "\n"}
                     /\ t[Len(t)] \notin {" ", "\t", "\n"}

IsBlank(s) == \A k \in DOMAIN s : s[k] \in {" ", "\t", "\n"}

\* C12: rename sets the name of its entry to the text entered without its
\* leading and trailing white space when that is not empty, and leaves the
\* name alone when the text is empty, only white space, or the prompt was
\* cancelled; it changes nothing else; no entry ever has an empty or
\* white-space-only name.
C12_RenameTrimsOrKeeps ==
  /\ [](\A i \in DOMAIN audioList : ~IsBlank(audioList[i].name))
  /\ [][\A i \in 1..MaxSessions, input \in RenameInputs :
          renameRecording(i, input) =>
            /\ UNCHANGED <<mediaRecorder, audioChunks, stream, isRecording,
                           isPaused, timerInterval, startTime, timeElapsed,
                           statusMessage, recordDisabled, timerText, platVars,
                           histVars, regVars>>
            /\ Len(audioList') = Len(audioList)
            /\ \A k \in DOMAIN audioList :
                 /\ k # i => audioList'[k] = audioList[k]
                 /\ audioList'[k] = [audioList[k] EXCEPT
                                       !.name = audioList'[k].name]
            /\ IF input.cancelled \/ IsBlank(input.text)
               THEN audioList'[i].name = audioList[i].name
               ELSE IsTrimOf(audioList'[i].name, input.text)]_vars

\* C12 witness: of two entries the newer one has been renamed with
\* " Take 2 " and the older one still has its default name.
C12_Witness ==
  /\ Len(audioList) = 2
  /\ audioList[1].name = <<"T", "a", "k", "e", " ", "2">>
  /\ audioList[2].name = DefaultName(audioList[2].durationMs)

\* The URL u belongs to an entry of the list.
Listed(u) == \E i \in DOMAIN audioList : audioList[i].url = u

\* C13: the payload reference of an entry is invalidated exactly once in
\* total, at its confirmed delete, whatever downloads came before: no URL
\* is revoked twice, and the URL of every removed entry is revoked once.
C13_RevokedOnceAtDelete ==
  \A u \in 1..urlCount :
    /\ revokeCalls[u] <= 1
    /\ ~Listed(u) => revokeCalls[u] = 1

\* C14: every entry still in the list has a payload reference that has not
\* been revoked, so it can be played and downloaded again.
C14_ListedPayloadStaysValid ==
  \A i \in DOMAIN audioList : revokeCalls[audioList[i].url] = 0

Alnum ==
  {"A", "B", "C", "D", "E", "F", "G", "H", "I", "J", "K", "L", "M", "N", "O",
        "P", "Q", "R", "S", "T", "U", "V", "W", "X", "Y", "Z"}
  \cup {"a", "b", "c", "d", "e", "f", "g", "h", "i", "j", "k", "l", "m", "n",
        "o", "p", "q", "r", "s", "t", "u", "v", "w", "x", "y", "z"}
  \cup {"0", "1", "2", "3", "4", "5", "6", "7", "8", "9"}

\* The filename of the last download is the name with every character
\* outside [A-Za-z0-9] replaced by "_", one for one, followed by ".webm".
FilenameFollowsRule ==
  lastDownload # NoDownload =>
    LET name == lastDownload.name
        filename == lastDownload.filename
    IN  /\ Len(filename) = Len(name) + 5
        /\ SubSeq(filename, Len(name) + 1, Len(name) + 5)
             = <<".", "w", "e", "b", "m">>
        /\ \A k \in DOMAIN name :
             filename[k] = IF name[k] \in Alnum THEN name[k] ELSE "_"

\* download takes the name the entry has at the click.
DownloadUsesCurrentName ==
  \A i \in 1..MaxSessions :
    downloadRecording(i) => lastDownload'.name = audioList[i].name

\* C15 as stated: the rule of FilenameFollowsRule, and "My Recording! #1"
\* is downloaded as "My_Recording__1.webm" (two underscores before the 1).
C15_FilenameSanitisedExampleTwo ==
  /\ FilenameFollowsRule
  /\ lastDownload.name = <<"M", "y", " ", "R", "e", "c", "o", "r", "d", "i", "n", "g", "!", " ", "#", "1">>
       => lastDownload.filename = 
            <<"M", "y", "_", "R", "e", "c", "o", "r", "d", "i", "n", "g", "_",
                  "_", "1", ".", "w", "e", "b", "m">>

\* C15 amended: download names the file after the entry's current name with
\* every character outside [A-Za-z0-9] replaced by "_", one for one, and
\* ".webm" appended; "My Recording! #1" is downloaded as
\* "My_Recording___1.webm" (one underscore each for "!", " " and "#").
C15_FilenameSanitised ==
  /\ [](/\ FilenameFollowsRule
        /\ lastDownload.name = <<"M", "y", " ", "R", "e", "c", "o", "r", "d", "i", "n", "g", "!", " ", "#", "1">>
             => lastDownload.filename = 
            <<"M", "y", "_", "R", "e", "c", "o", "r", "d", "i", "n", "g", "_",
                  "_", "_", "1", ".", "w", "e", "b", "m">>)
  /\ [][DownloadUsesCurrentName]_vars

\* C15 witness: an entry renamed to "My Recording! #1" has been downloaded.
C15_Witness ==
  /\ lastDownload.name = <<"M", "y", " ", "R", "e", "c", "o", "r", "d", "i", "n", "g", "!", " ", "#", "1">>
  /\ lastDownload.filename = 
            <<"M", "y", "_", "R", "e", "c", "o", "r", "d", "i", "n", "g", "_",
                  "_", "_", "1", ".", "w", "e", "b", "m">>
  /\ \E i \in DOMAIN audioList : audioList[i].name = lastDownload.name

\* The number a string of decimal digits denotes.
RECURSIVE DigitsValue(_)
DigitsValue(s) ==
  IF s = <<>> THEN 0
  ELSE 10 * DigitsValue(SubSeq(s, 1, Len(s) - 1))
         + (CHOOSE d \in 0..9 : DigitChar(d) = s[Len(s)])

IsDigits(s) == \A k \in DOMAIN s : \E d \in 0..9 : s[k] = DigitChar(d)

\* C16: the timer display of timeElapsed is HH:MM:SS of
\* floor(timeElapsed / 1000): hours of at least two digits, padded with a
\* zero only up to two, not reduced modulo 24; minutes and seconds of exactly
\* two digits in 0..59; 3725000 gives 01:02:05, 0 gives 00:00:00 and
\* 25 * 3600000 gives 25:00:00.
C16_TimerTextIsHHMMSS ==
  LET n  == Len(timerText)
      hh == SubSeq(timerText, 1, n - 6)
      mm == SubSeq(timerText, n - 4, n - 3)
      ss == SubSeq(timerText, n - 1, n)
  IN  /\ n >= 8
      /\ timerText[n - 5] = ":" /\ timerText[n - 2] = ":"
      /\ IsDigits(hh) /\ IsDigits(mm) /\ IsDigits(ss)
      /\ Len(hh) > 2 => hh[1] # "0"
      /\ DigitsValue(mm) <= 59 /\ DigitsValue(ss) <= 59
      /\ DigitsValue(hh) * 3600 + DigitsValue(mm) * 60 + DigitsValue(ss)
           = timeElapsed \div 1000
      /\ timeElapsed = 3725000
           => timerText = <<"0", "1", ":", "0", "2", ":", "0", "5">>
      /\ timeElapsed = 0
           => timerText = <<"0", "0", ":", "0", "0", ":", "0", "0">>
      /\ timeElapsed = 25 * 3600000
           => timerText = <<"2", "5", ":", "0", "0", ":", "0", "0">>

\* C16 witness: the callback has displayed twenty-five hours.
C16_Witness ==
  /\ timeElapsed = 25 * 3600000
  /\ timers[1] > now
  /\ timerText = <<"2", "5", ":", "0", "0", ":", "0", "0">>

====
